---- MODULE Spec2Model ----
(***************************************************************************)
(* A model of the vacation-rental CRUD backend: the login route, the JWT   *)
(* middleware (middleware/auth.js) and the users, reviews, bookings and    *)
(* properties routers, over a Prisma/PostgreSQL store (prisma/schema).     *)
(*                                                                         *)
(* A request is handled in steps.  Its first step is everything that runs  *)
(* synchronously when it arrives: the middleware, the destructuring of the *)
(* body, the field validation and the ownership check, up to the first     *)
(* `await`.  Every later step is one awaited store call together with the  *)
(* synchronous code that follows it, up to the next `await` or the         *)
(* response.  Requests in different slots interleave between steps.        *)
(*                                                                         *)
(* JSON bodies are functions from the field names that are present to      *)
(* their values; an absent field is a name outside the DOMAIN.             *)
(* Time is counted in hours.                                               *)
(***************************************************************************)
EXTENDS Integers, Sequences, FiniteSets, TLC

VARIABLES
    users,       \* table User:     id -> [username, email, password, name, phoneNumber]
    hosts,       \* table Host:     the set of ids of the rows
    properties,  \* table Property: id -> [title, description, location, pricePerNight,
                 \*   bedroomCount, bathroomCount, maxGuestCount, rating, hostId]
    bookings,    \* table Booking:  id -> [startDate, endDate, userId, propertyId]
    reviews,     \* table Review:   id -> [rating, comment, userId, propertyId]
    clock,       \* Date.now(), in hours
    tokens,      \* the tokens POST /login has handed out so far
    req,         \* slot -> the request in flight there
    minted,      \* the ids @default(uuid()) has generated so far
    nreq         \* the number of requests received so far

vars == <<users, hosts, properties, bookings, reviews, clock, tokens, req, minted, nreq>>
store == <<users, hosts, properties, bookings, reviews>>

----------------------------------------------------------------------------
(* Bounds *)

MaxRequests == 2
MaxClock == 8

Slots == {"s1", "s2"}

(* Program constants *)

ExpiresInHours == 7
JWT_SECRET == "process.env.JWT_SECRET"

----------------------------------------------------------------------------
(* Values *)

Undefined == "undefined"

EmptyBody == [f \in {} |-> Undefined]

Has(body, f) == f \in DOMAIN body

Get(body, f) == IF f \in DOMAIN body THEN body[f] ELSE Undefined

NumberFields ==
    {"rating", "pricePerNight", "bedroomCount", "bathroomCount", "maxGuestCount"}

\* JavaScript truthiness of body[f]: undefined, "" and 0 are falsy.
Truthy(body, f) ==
    /\ f \in DOMAIN body
    /\ IF f \in NumberFields THEN body[f] # 0 ELSE body[f] # ""

\* !a || !b || ...: some field of fs is falsy.
SomeFalsy(body, fs) == \E f \in fs : ~Truthy(body, f)

\* !a && !b && ...: every field of fs is falsy.
AllFalsy(body, fs) == \A f \in fs : ~Truthy(body, f)

\* Update data that takes the payload's id along with the fields fs.
TruthyPartWithId(body, fs) ==
    [f \in {g \in fs \cup {"id"} : Truthy(body, g)} |-> body[f]]

\* An update that writes every field the payload carries, falsy or not.
TruthyPartAll(body, fs) ==
    [f \in {g \in fs : g \in DOMAIN body} |-> body[f]]

\* The object literal built by `if (x) updatedData.x = x` over the fields fs.
TruthyPart(body, fs) ==
    [f \in {g \in fs : Truthy(body, g)} |-> body[f]]

\* row with the fields of data written over it (prisma update's `data`).
Overwrite(row, data) ==
    [f \in DOMAIN row |-> IF f \in DOMAIN data THEN data[f] ELSE row[f]]

----------------------------------------------------------------------------
(* The data the model runs on *)

SeedUsers ==
    [i \in {"u1", "u2"} |->
        IF i = "u1"
        THEN [username |-> "jdoe", email |-> "jdoe@example.com",
              password |-> "secret", name |-> "John Doe",
              phoneNumber |-> "0612345678"]
        ELSE [username |-> "asmith", email |-> "asmith@example.com",
              password |-> "hunter2", name |-> "Anna Smith",
              phoneNumber |-> "0687654321"]]

SeedHosts == {"h1"}

SeedProperties ==
    [i \in {"p1"} |->
        [title |-> "Beach House", description |-> "By the sea",
         location |-> "Malibu, California", pricePerNight |-> 310,
         bedroomCount |-> 3, bathroomCount |-> 2, maxGuestCount |-> 6,
         rating |-> 4, hostId |-> "h1"]]

SeedBookings ==
    [i \in {"b1"} |-> [startDate |-> "2024-01-01T00:00:00.000Z",
                       endDate |-> "2024-01-07T00:00:00.000Z",
                       userId |-> "u2", propertyId |-> "p1"]]

SeedReviews ==
    [i \in {"r1"} |-> [rating |-> 5, comment |-> "Excellent", userId |-> "u2",
                       propertyId |-> "p1"]]

SeedIds == {"u1", "u2", "h1", "p1", "b1", "r1"}

\* The ids uuid() can still hand out, per table.
FreshUserIds == {"u3", "u4", "u5"}
FreshPropertyIds == {"p2", "p3", "p4"}
FreshBookingIds == {"b2", "b3", "b4"}
FreshReviewIds == {"r2", "r3", "r4"}

\* The ids a client puts in a path or a body: rows that exist, rows that may come
\* to exist, and an id that never names a row.
UserIdInputs == {"u1", "u2", "u9"}
HostIdInputs == {"h1", "h9"}
PropertyIdInputs == {"p1", "p9"}
BookingIdInputs == {"b1", "b9"}
ReviewIdInputs == {"r1", "r9"}

----------------------------------------------------------------------------
(* The store: the Prisma client over the schema's tables.  A call returns   *)
(* [code, table]: code "ok", or the code of the error Prisma throws, and    *)
(* the table as the call leaves it.                                         *)

Ok(table) == [code |-> "ok", table |-> table]
Throws(code, table) == [code |-> code, table |-> table]

\* uuid(): an id that was never generated before.
NewId(pool) == CHOOSE i \in pool : i \notin minted

Insert(table, id, row) ==
    [i \in DOMAIN table \cup {id} |-> IF i = id THEN row ELSE table[i]]

Remove(table, id) == [i \in DOMAIN table \ {id} |-> table[i]]

\* A User table without the @unique attributes.
UserUniqueOkOff(table, self, row) == TRUE

\* @unique on User.username and on User.email: no row other than `self` may
\* already carry the username or the email of `row`.
UserUniqueOk(table, self, row) ==
    \A i \in DOMAIN table \ {self} :
        /\ table[i].username # row.username
        /\ table[i].email # row.email

\* Booking and Review without their foreign keys.
UserPropertyRefsOff(row) == TRUE

\* @relation(fields: [userId]) and @relation(fields: [propertyId]) of Booking
\* and Review; @relation(fields: [hostId]) of Property.
UserPropertyRefsOk(row) ==
    /\ row.userId \in DOMAIN users
    /\ row.propertyId \in DOMAIN properties

HostRefOk(row) == row.hostId \in hosts

UserReferenced(id) ==
    \/ \E b \in DOMAIN bookings : bookings[b].userId = id
    \/ \E v \in DOMAIN reviews : reviews[v].userId = id

\* Booking and Review without their foreign key to Property.
PropertyReferencedNever(id) == FALSE

PropertyReferenced(id) ==
    \/ \E b \in DOMAIN bookings : bookings[b].propertyId = id
    \/ \E v \in DOMAIN reviews : reviews[v].propertyId = id

\* prisma.user.findUnique({ where: { username } })
UserByUsername(username) ==
    {i \in DOMAIN users : users[i].username = username}

\* prisma.user.findFirst({ where: { OR: [{ username }, { email }] } })
UserFindFirst(username, email) ==
    {i \in DOMAIN users : users[i].username = username \/ users[i].email = email}

\* prisma.<model>.create({ data }): a column the schema requires and data leaves
\* undefined is a validation error of the client, a broken @unique is P2002, a
\* reference to a row that is not there is P2003; otherwise the row is stored
\* under a new id.
Created(table, pool, data, required, uniqueOk, refsOk) ==
    IF ~(required \subseteq DOMAIN data) THEN Throws("validation", table)
    ELSE IF ~uniqueOk THEN Throws("P2002", table)
    ELSE IF ~refsOk THEN Throws("P2003", table)
    ELSE Ok(Insert(table, NewId(pool), data))

\* prisma.<model>.update({ where: { id }, data }): P2025 when no row has the id.
\* id is a column like the others (@id @default(uuid())): data that carries an
\* id moves the row to it, P2002 if another row has it.  The call resolves to
\* the row as updated, here the id it is now stored under.  (Rows of other
\* tables that reference a moved id are outside this table and not followed.)
Updated(table, id, data, uniqueOk, refsOk) ==
    LET to == IF Has(data, "id") THEN data.id ELSE id IN
    IF id \notin DOMAIN table THEN Throws("P2025", table)
    ELSE IF ~uniqueOk \/ (to # id /\ to \in DOMAIN table) THEN Throws("P2002", table)
    ELSE IF ~refsOk THEN Throws("P2003", table)
    ELSE [code |-> "ok", id |-> to,
          table |-> Insert(Remove(table, id), to, Overwrite(table[id], data))]

\* prisma.<model>.delete({ where: { id } }): P2025 when no row has the id, P2003
\* when another table's row still references it.
Deleted(table, id, referenced) ==
    IF id \notin DOMAIN table THEN Throws("P2025", table)
    ELSE IF referenced THEN Throws("P2003", table)
    ELSE Ok(Remove(table, id))

\* The row an update would leave, for the constraints to look at.
RowAfter(table, id, data) ==
    IF id \in DOMAIN table THEN Overwrite(table[id], data) ELSE data

UserRequired == {"username", "name", "email", "phoneNumber", "password"}

UserCreate(data) ==
    Created(users, FreshUserIds, data, UserRequired,
            UserRequired \subseteq DOMAIN data => UserUniqueOk(users, Undefined, data),
            TRUE)

UserUpdate(id, data) ==
    Updated(users, id, data,
            id \in DOMAIN users => UserUniqueOk(users, id, RowAfter(users, id, data)),
            TRUE)

UserDelete(id) == Deleted(users, id, UserReferenced(id))

ReviewRequired == {"rating", "userId", "propertyId"}

ReviewCreate(data) ==
    Created(reviews, FreshReviewIds, data, ReviewRequired, TRUE,
            ReviewRequired \subseteq DOMAIN data => UserPropertyRefsOk(data))

ReviewUpdate(id, data) ==
    Updated(reviews, id, data, TRUE,
            id \in DOMAIN reviews => UserPropertyRefsOk(RowAfter(reviews, id, data)))

ReviewDelete(id) == Deleted(reviews, id, FALSE)

BookingRequired == {"startDate", "endDate", "userId", "propertyId"}

BookingCreate(data) ==
    Created(bookings, FreshBookingIds, data, BookingRequired, TRUE,
            BookingRequired \subseteq DOMAIN data => UserPropertyRefsOk(data))

BookingUpdate(id, data) ==
    Updated(bookings, id, data, TRUE,
            id \in DOMAIN bookings => UserPropertyRefsOk(RowAfter(bookings, id, data)))

BookingDelete(id) == Deleted(bookings, id, FALSE)

PropertyRequired ==
    {"title", "description", "location", "pricePerNight", "bedroomCount",
     "bathroomCount", "maxGuestCount", "rating", "hostId"}

PropertyCreate(data) ==
    Created(properties, FreshPropertyIds, data, PropertyRequired, TRUE,
            PropertyRequired \subseteq DOMAIN data => HostRefOk(data))

PropertyUpdate(id, data) ==
    Updated(properties, id, data, TRUE,
            id \in DOMAIN properties => HostRefOk(RowAfter(properties, id, data)))

PropertyDelete(id) == Deleted(properties, id, PropertyReferenced(id))

\* The columns of each model, id included.
Columns ==
    [User |-> {"id", "username", "name", "email", "phoneNumber", "profilePicture",
               "password"},
     Review |-> {"id", "rating", "comment", "propertyId", "userId"},
     Booking |-> {"id", "startDate", "endDate", "propertyId", "userId"},
     Property |-> {"id", "title", "description", "location", "pricePerNight",
                   "bedroomCount", "bathroomCount", "maxGuestCount", "rating",
                   "hostId"}]

\* The row as a query with `select` returns it: the selected fields only.
Selected(id, row, select) ==
    [f \in select \cap (DOMAIN row \cup {"id"}) |-> IF f = "id" THEN id ELSE row[f]]

\* prisma.<model>.findUnique({ where: { id }, select }): a select that names a
\* field the model does not have is a validation error of the client; otherwise
\* the selected fields of the row, or null (found = FALSE).
FindUnique(table, id, select, columns) ==
    IF ~(select \subseteq columns)
    THEN [code |-> "validation", found |-> FALSE, value |-> EmptyBody]
    ELSE IF id \notin DOMAIN table
    THEN [code |-> "ok", found |-> FALSE, value |-> EmptyBody]
    ELSE [code |-> "ok", found |-> TRUE, value |-> Selected(id, table[id], select)]

\* prisma.<model>.findMany({ where: {}, select }): every row, in no stated
\* order.  A JSON array is written [array |-> the set of its elements].
FindMany(table, select, columns) ==
    IF ~(select \subseteq columns)
    THEN [code |-> "validation", found |-> FALSE, value |-> EmptyBody]
    ELSE [code |-> "ok", found |-> TRUE,
          value |-> [array |-> {Selected(i, table[i], select) : i \in DOMAIN table}]]

----------------------------------------------------------------------------
(* Tokens and the authorization header.  A header value is the list of its  *)
(* space-separated parts; a part is a plain word or a serialized JWT.       *)

Word(text) == [kind |-> "word", text |-> text, payload |-> EmptyBody, key |-> ""]

NoPart == [kind |-> "undefined", text |-> "", payload |-> EmptyBody, key |-> ""]

NoHeader == [present |-> FALSE, parts |-> <<>>]

HeaderOf(parts) == [present |-> TRUE, parts |-> parts]

Bearer(token) == HeaderOf(<<Word("Bearer"), token>>)

\* jwt.sign(payload, key, { expiresIn: "7h" }) at time now: the payload gets
\* iat = now and exp = iat + 7h and is signed with key.
JwtSign(payload, key, now) ==
    [kind |-> "jwt", text |-> "",
     payload |-> [userId |-> payload.userId, username |-> payload.username,
                  iat |-> now, exp |-> now + ExpiresInHours],
     key |-> key]

\* jwt.verify that lets a token through at the very instant it expires.
JwtVerifyThrowsLate(token, key, now) ==
    \/ token.kind # "jwt"
    \/ token.key # key
    \/ Has(token.payload, "exp") /\ now > token.payload.exp

\* A jwt.verify that accepts whatever it is given.
JwtVerifyThrowsNever(token, key, now) == FALSE

\* jwt.verify(token, key) at time now returns the payload; it throws when the
\* token is no JWT, when it was signed with another key, and from exp on.
JwtVerifyThrows(token, key, now) ==
    \/ token.kind # "jwt"
    \/ token.key # key
    \/ Has(token.payload, "exp") /\ now >= token.payload.exp

\* An extraction that asks for the scheme word Bearer.
ExtractTokenBearerOnly(header) ==
    IF header.present /\ Len(header.parts) >= 2 /\ header.parts[1] = Word("Bearer")
    THEN header.parts[2] ELSE NoPart

\* req.headers["authorization"]?.split(" ")[1]
ExtractToken(header) ==
    IF header.present /\ Len(header.parts) >= 2 THEN header.parts[2] ELSE NoPart

\* A middleware without the `if (!token)` branch.
TokenMissingNever(token) == FALSE

\* !token: undefined, or the empty string
TokenMissing(token) ==
    \/ token.kind = "undefined"
    \/ token.kind = "word" /\ token.text = ""

Response(status, json) == [status |-> status, json |-> json]

Message(text) == [message |-> text]

NoResponse == Response(0, EmptyBody)

\* verifyToken whose catch block answers 401 and then calls next() all the same.
VerifyTokenNoReturn(header, now) ==
    LET token == ExtractToken(header) IN
    IF TokenMissing(token)
    THEN [outcome |-> "MissingCredential", user |-> EmptyBody, next |-> FALSE,
          res |-> Response(401, Message("No token provided, authorization denied"))]
    ELSE IF token.kind # "jwt" \/ token.key # JWT_SECRET
            \/ (Has(token.payload, "exp") /\ now >= token.payload.exp)
    THEN [outcome |-> "InvalidToken", user |-> EmptyBody, next |-> TRUE,
          res |-> NoResponse]
    ELSE [outcome |-> "Authorized", user |-> token.payload, next |-> TRUE,
          res |-> NoResponse]

\* A router whose routes are registered without verifyToken.
VerifyTokenLeftOut(header, now) ==
    [outcome |-> "none", user |-> EmptyBody, next |-> TRUE, res |-> NoResponse]

\* verifyToken(req, res, next): the outcome, the claim put in req.user, whether
\* next() was called, and the response it sent itself (if any).
\* A middleware that also looks the token's user up and rejects the token of a
\* user who is no longer stored.
VerifyTokenUserLookup(header, now) ==
    LET token == ExtractToken(header) IN
    IF TokenMissing(token)
    THEN [outcome |-> "MissingCredential", user |-> EmptyBody, next |-> FALSE,
          res |-> Response(401, Message("No token provided, authorization denied"))]
    ELSE IF \/ JwtVerifyThrows(token, JWT_SECRET, now)
            \/ Has(token.payload, "userId") /\ token.payload.userId \notin DOMAIN users
    THEN [outcome |-> "InvalidToken", user |-> EmptyBody, next |-> FALSE,
          res |-> Response(401, Message("Invalid or expired token"))]
    ELSE [outcome |-> "Authorized", user |-> token.payload, next |-> TRUE,
          res |-> NoResponse]

VerifyToken(header, now) ==
    LET token == ExtractToken(header) IN
    IF TokenMissing(token)
    THEN [outcome |-> "MissingCredential", user |-> EmptyBody, next |-> FALSE,
          res |-> Response(401, Message("No token provided, authorization denied"))]
    ELSE IF JwtVerifyThrows(token, JWT_SECRET, now)
    THEN [outcome |-> "InvalidToken", user |-> EmptyBody, next |-> FALSE,
          res |-> Response(401, Message("Invalid or expired token"))]
    ELSE [outcome |-> "Authorized", user |-> token.payload, next |-> TRUE,
          res |-> NoResponse]

\* A route registered without the middleware: express calls the handler.
Unguarded ==
    [outcome |-> "none", user |-> EmptyBody, next |-> TRUE, res |-> NoResponse]

----------------------------------------------------------------------------
(* Requests *)

Idle ==
    [route |-> "", id |-> "", body |-> EmptyBody, header |-> NoHeader, at |-> 0,
     mw |-> "none", user |-> EmptyBody, handler |-> 0, pc |-> "idle",
     res |-> NoResponse, reads |-> 0, writes |-> 0, found |-> EmptyBody,
     err |-> ""]

\* What a handler leaves behind when it reaches an `await` or a `return res...`.
Await(pc) == [pc |-> pc, res |-> NoResponse]
Reply(status, json) == [pc |-> "done", res |-> Response(status, json)]

\* The request after its synchronous first step: the middleware's outcome auth,
\* and, only if the middleware called next(), the handler run up to entry.
Arrived(route, id, body, header, auth, entry) ==
    [route |-> route, id |-> id, body |-> body, header |-> header, at |-> clock,
     mw |-> auth.outcome, user |-> auth.user,
     handler |-> IF auth.next THEN 1 ELSE 0,
     pc |-> IF auth.next THEN entry.pc ELSE "done",
     res |-> IF auth.next THEN entry.res ELSE auth.res,
     reads |-> 0, writes |-> 0, found |-> EmptyBody, err |-> ""]

Receive(r, request) ==
    /\ req[r].pc = "idle"
    /\ nreq < MaxRequests
    /\ req' = [req EXCEPT ![r] = request]
    /\ nreq' = nreq + 1
    /\ UNCHANGED <<store, clock, tokens, minted>>

At(r, route, pc) == req[r].route = route /\ req[r].pc = pc

\* The request in slot r after a store call: one more read or write, the local
\* it was awaited into, and where the handler goes next.
AfterRead(r, local, value, to) ==
    [req EXCEPT ![r].reads = @ + 1,
                ![r].found = Insert(@, local, value),
                ![r].pc = to.pc, ![r].res = to.res]

AfterWrite(r, to) ==
    [req EXCEPT ![r].writes = @ + 1, ![r].pc = to.pc, ![r].res = to.res]

\* catch (err) { ... }: the store call threw err.code and changed nothing.
AfterThrow(r, code, to) ==
    [req EXCEPT ![r].err = code, ![r].pc = to.pc, ![r].res = to.res]

\* A lookup followed by an ownership check: 403 unless the row found belongs to
\* the user the token names.
RowFoundOwned(r, table, local, missing) ==
    AfterRead(r, local, req[r].id \in DOMAIN table,
              IF req[r].id \notin DOMAIN table THEN Reply(404, Message(missing))
              ELSE IF /\ Has(table[req[r].id], "userId")
                      /\ table[req[r].id].userId # Get(req[r].user, "userId")
              THEN Reply(403, Message("Forbidden"))
              ELSE Await("update"))

\* const row = await prisma.<model>.findUnique({ where: { id } }); if (!row) 404
RowFound(r, table, local, missing) ==
    AfterRead(r, local, req[r].id \in DOMAIN table,
              IF req[r].id \in DOMAIN table THEN Await("update")
              ELSE Reply(404, Message(missing)))

\* A catch block that logs the error and sends nothing.
ServerErrorUnanswered == Await("caught")

ServerError == Reply(500, Message("Server error"))

\* The id uuid() gave the row a create just stored.
CreatedId(before, after) == CHOOSE i \in DOMAIN after : i \notin DOMAIN before

MintedAfter(out, before) ==
    IF out.code = "ok" THEN minted \cup {CreatedId(before, out.table)} ELSE minted

\* The response is on the wire and the slot is free for the next request.
Close(r) ==
    /\ req[r].pc = "done"
    /\ req' = [req EXCEPT ![r] = Idle]
    /\ UNCHANGED <<store, clock, tokens, minted, nreq>>

\* The headers clients send: none, "Bearer <token>" for a token login handed
\* out, for a token signed with another key and for a string that is no JWT.
ForgedTokens ==
    {JwtSign([userId |-> i, username |-> SeedUsers[i].username], "attacker key", 0) :
        i \in {"u1"}}

\* Tokens signed with the process secret by some other issuer than POST /login:
\* their payload names the subject `id` and has no expiry.
IdClaimTokens ==
    {[kind |-> "jwt", text |-> "", payload |-> [id |-> i, iat |-> 0],
      key |-> JWT_SECRET] : i \in {"u1", "u2"}}

LoginHeaders == {Bearer(t) : t \in tokens}

BadHeaders == {NoHeader, Bearer(Word("garbage"))} \cup {Bearer(t) : t \in ForgedTokens}

IdClaimHeaders == {Bearer(t) : t \in IdClaimTokens}

\* A token login handed out, sent after another scheme word, and sent alone.
OtherSchemeHeaders ==
    {HeaderOf(<<Word("Token"), t>>) : t \in tokens} \cup {HeaderOf(<<t>>) : t \in tokens}

----------------------------------------------------------------------------
(* POST /login *)

LoginBodies ==
    {[username |-> "jdoe", password |-> "secret"],
     [username |-> "jdoe", password |-> "Secret"],
     [username |-> "asmith", password |-> "hunter2"],
     [username |-> "nobody", password |-> "secret"],
     [username |-> "jdoe"],
     [username |-> "", password |-> "secret"]}

LoginEntry(body) ==
    IF ~Truthy(body, "username") \/ ~Truthy(body, "password")
    THEN Reply(400, Message("Username and password are required"))
    ELSE Await("findUnique")

LoginReceive(r) ==
    \E body \in LoginBodies, header \in {NoHeader} :
        Receive(r, Arrived("POST /login", "", body, header, Unguarded,
                           LoginEntry(body)))

\* A login that hands a token to whoever names a stored user.
LoginResultAnyPassword(body, now) ==
    LET match == UserByUsername(body.username) IN
    IF match = {} THEN Reply(401, Message("Invalid credentials"))
    ELSE LET i == CHOOSE i \in match : TRUE IN
         Reply(200, [token |->
                  JwtSign([userId |-> i, username |-> users[i].username],
                          JWT_SECRET, now)])

\* After findUnique: the credential check and the token.
LoginResult(body, now) ==
    LET match == UserByUsername(body.username) IN
    IF match = {} THEN Reply(401, Message("Invalid credentials"))
    ELSE LET i == CHOOSE i \in match : TRUE IN
         IF body.password # users[i].password
         THEN Reply(401, Message("Invalid credentials"))
         ELSE Reply(200, [token |->
                  JwtSign([userId |-> i, username |-> users[i].username],
                          JWT_SECRET, now)])

\* A login that stores the password it was given for the user it found.
LoginFindStoring(r) ==
    /\ At(r, "POST /login", "findUnique")
    /\ LET to == LoginResult(req[r].body, clock) IN
        /\ req' = AfterRead(r, "user", UserByUsername(req[r].body.username) # {}, to)
        /\ tokens' = IF to.res.status = 200 THEN tokens \cup {to.res.json.token}
                      ELSE tokens
    /\ users' = [i \in DOMAIN users |->
                    IF i \in UserByUsername(req[r].body.username)
                    THEN [users[i] EXCEPT !.password = req[r].body.password]
                    ELSE users[i]]
    /\ UNCHANGED <<hosts, properties, bookings, reviews, clock, minted, nreq>>

LoginFind(r) ==
    /\ At(r, "POST /login", "findUnique")
    /\ LET to == LoginResult(req[r].body, clock) IN
        /\ req' = AfterRead(r, "user", UserByUsername(req[r].body.username) # {}, to)
        /\ tokens' = IF to.res.status = 200 THEN tokens \cup {to.res.json.token}
                      ELSE tokens
    /\ UNCHANGED <<store, clock, minted, nreq>>

----------------------------------------------------------------------------
(* routes/users.js *)

IsOwnerAnyone(user, id) == TRUE

\* req.user.id !== id, negated.  req.user is the decoded token payload.
IsOwner(user, id) == Get(user, "id") = id

UserPostBodies ==
    {[username |-> "newuser", email |-> "newuser@example.com",
      password |-> "newpassword123", name |-> "New User", phoneNumber |-> "0600000000"],
     [username |-> "newuser", email |-> "newuser@example.com",
      password |-> "newpassword123", name |-> "New User"],
     [username |-> "newuser", email |-> "newuser@example.com",
      password |-> "newpassword123"],
     [username |-> "jdoe", email |-> "other@example.com", password |-> "x",
      name |-> "J", phoneNumber |-> "0600000001"]}

PostUserEntry(body) ==
    IF SomeFalsy(body, {"username", "email", "password", "name"})
    THEN Reply(400, Message("Username, email, password, and name are required"))
    ELSE Await("findFirst")

PostUserReceive(r, H) ==
    \E body \in UserPostBodies, header \in H :
        Receive(r, Arrived("POST /users", "", body, header,
                           VerifyToken(header, clock), PostUserEntry(body)))

PostUserFind(r) ==
    /\ At(r, "POST /users", "findFirst")
    /\ LET existing == UserFindFirst(req[r].body.username, req[r].body.email) IN
        req' = AfterRead(r, "existingUser", existing # {},
                         IF existing # {}
                         THEN Reply(400, Message("Username or email already taken"))
                         ELSE Await("create"))
    /\ UNCHANGED <<store, clock, tokens, minted, nreq>>

\* A response that sends the whole row.
WithPassword(id, row) ==
    [f \in DOMAIN row \cup {"id"} |-> IF f = "id" THEN id ELSE row[f]]

\* const { password: _, ...userWithoutPassword } = row, with the row's id
WithoutPassword(id, row) ==
    [f \in (DOMAIN row \ {"password"}) \cup {"id"} |->
        IF f = "id" THEN id ELSE row[f]]

PostUserCreate(r) ==
    /\ At(r, "POST /users", "create")
    /\ FreshUserIds \ minted # {}
    /\ LET out == UserCreate([f \in DOMAIN req[r].body \cap UserRequired |->
                                req[r].body[f]]) IN
        /\ users' = out.table
        /\ req' = IF out.code = "ok"
                   THEN AfterWrite(r, Reply(201,
                            WithoutPassword(CreatedId(users, out.table),
                                            out.table[CreatedId(users, out.table)])))
                   ELSE AfterThrow(r, out.code, ServerError)
        /\ minted' = MintedAfter(out, users)
    /\ UNCHANGED <<hosts, properties, bookings, reviews, clock, tokens, nreq>>

UserPutBodies ==
    {EmptyBody,
     [username |-> "johnny"],
     [password |-> "changed"],
     [email |-> "asmith@example.com"],
     [username |-> "", email |-> ""],
     [id |-> "u2", name |-> "Johnny", username |-> "johnny"]}

\* A handler that checks the ownership before it validates the body.
PutUserEntryOwnerFirst(id, body, user) ==
    IF ~IsOwner(user, id)
    THEN Reply(403, Message("You can only update your own account"))
    ELSE IF ~Truthy(body, "username") /\ ~Truthy(body, "email") /\ ~Truthy(body, "password")
    THEN Reply(400, Message("At least one field is required (username, email, or password)"))
    ELSE Await("findUnique")

PutUserEntry(id, body, user) ==
    IF ~Truthy(body, "username") /\ ~Truthy(body, "email") /\ ~Truthy(body, "password")
    THEN Reply(400, Message("At least one field is required (username, email, or password)"))
    ELSE IF ~IsOwner(user, id)
    THEN Reply(403, Message("You can only update your own account"))
    ELSE Await("findUnique")

PutUserReceive(r, H) ==
    \E id \in UserIdInputs, body \in UserPutBodies, header \in H :
        LET auth == VerifyToken(header, clock) IN
        Receive(r, Arrived("PUT /users/:id", id, body, header, auth,
                           PutUserEntry(id, body, auth.user)))

PutUserFind(r) ==
    /\ At(r, "PUT /users/:id", "findUnique")
    /\ req' = RowFound(r, users, "user", "User not found")
    /\ UNCHANGED <<store, clock, tokens, minted, nreq>>

PutUserUpdate(r) ==
    /\ At(r, "PUT /users/:id", "update")
    /\ LET out == UserUpdate(req[r].id,
                     TruthyPart(req[r].body, {"username", "email", "password"})) IN
        /\ users' = out.table
        /\ req' = IF out.code = "ok"
                   THEN AfterWrite(r, Reply(200, WithoutPassword(out.id,
                                                   out.table[out.id])))
                   ELSE AfterThrow(r, out.code, ServerError)
    /\ UNCHANGED <<hosts, properties, bookings, reviews, clock, tokens, minted, nreq>>

DeleteUserEntry(id, user) ==
    IF ~IsOwner(user, id)
    THEN Reply(403, Message("You can only delete your own account"))
    ELSE Await("delete")

DeleteUserReceive(r, H) ==
    \E id \in UserIdInputs, header \in H :
        LET auth == VerifyToken(header, clock) IN
        Receive(r, Arrived("DELETE /users/:id", id, EmptyBody, header, auth,
                           DeleteUserEntry(id, auth.user)))

DeleteUserDelete(r) ==
    /\ At(r, "DELETE /users/:id", "delete")
    /\ LET out == UserDelete(req[r].id) IN
        /\ users' = out.table
        /\ req' = IF out.code = "ok"
                   THEN AfterWrite(r, Reply(200, Message(
                            "User " \o users[req[r].id].username \o " deleted successfully")))
                   ELSE IF out.code = "P2025"
                   THEN AfterThrow(r, out.code, Reply(404, Message("User not found")))
                   ELSE AfterThrow(r, out.code, ServerError)
    /\ UNCHANGED <<hosts, properties, bookings, reviews, clock, tokens, minted, nreq>>

----------------------------------------------------------------------------
(* routes/reviews.js *)

ReviewFields == {"rating", "comment", "userId", "propertyId"}

ReviewPostBodies ==
    {[rating |-> 5, comment |-> "Great", userId |-> u, propertyId |-> p] :
        u \in {"u1", "u9"}, p \in PropertyIdInputs}
    \cup {[rating |-> 0, comment |-> "Bad", userId |-> "u1", propertyId |-> "p1"],
          [rating |-> 5, userId |-> "u9", propertyId |-> "p9"]}

ReviewPutBodies ==
    {EmptyBody, [rating |-> 0], [rating |-> 3], [comment |-> "Fine", userId |-> "u1"],
     [id |-> "r9", rating |-> 0, comment |-> "Fine"],
     [userId |-> "u9"], [propertyId |-> "p9"]}

PostReviewEntry(body) ==
    IF SomeFalsy(body, ReviewFields)
    THEN Reply(400, Message("Rating, comment, user ID, and property ID are required"))
    ELSE Await("userExists")

PostReviewReceive(r, H) ==
    \E body \in ReviewPostBodies, header \in H :
        Receive(r, Arrived("POST /reviews", "", body, header,
                           VerifyToken(header, clock), PostReviewEntry(body)))

\* A handler that goes on to the property check whatever the user lookup found.
UserCheckedIgnored(r) ==
    AfterRead(r, "userExists", req[r].body.userId \in DOMAIN users,
              Await("propertyExists"))

\* const userExists = await prisma.user.findUnique({ where: { id: userId } });
\* if (!userExists) 404
UserChecked(r) ==
    AfterRead(r, "userExists", req[r].body.userId \in DOMAIN users,
              IF req[r].body.userId \in DOMAIN users
              THEN Await("propertyExists")
              ELSE Reply(404, Message("User not found")))

\* const propertyExists = await prisma.property.findUnique(...); if (!...) 404
PropertyChecked(r) ==
    AfterRead(r, "propertyExists", req[r].body.propertyId \in DOMAIN properties,
              IF req[r].body.propertyId \in DOMAIN properties
              THEN Await("create")
              ELSE Reply(404, Message("Property not found")))

PostReviewUser(r) ==
    /\ At(r, "POST /reviews", "userExists")
    /\ req' = UserChecked(r)
    /\ UNCHANGED <<store, clock, tokens, minted, nreq>>

PostReviewProperty(r) ==
    /\ At(r, "POST /reviews", "propertyExists")
    /\ req' = PropertyChecked(r)
    /\ UNCHANGED <<store, clock, tokens, minted, nreq>>

WithId(id, row) ==
    [f \in DOMAIN row \cup {"id"} |-> IF f = "id" THEN id ELSE row[f]]

\* After a create: 201 with the new row, or the catch block's 500.
AfterCreate(r, out, before) ==
    IF out.code = "ok"
    THEN AfterWrite(r, Reply(201, WithId(CreatedId(before, out.table),
                                         out.table[CreatedId(before, out.table)])))
    ELSE AfterThrow(r, out.code, ServerError)

PostReviewCreate(r) ==
    /\ At(r, "POST /reviews", "create")
    /\ FreshReviewIds \ minted # {}
    /\ LET out == ReviewCreate([f \in ReviewFields |-> req[r].body[f]]) IN
        /\ reviews' = out.table
        /\ req' = AfterCreate(r, out, reviews)
        /\ minted' = MintedAfter(out, reviews)
    /\ UNCHANGED <<users, hosts, properties, bookings, clock, tokens, nreq>>

PutReviewEntry(body) ==
    IF AllFalsy(body, ReviewFields)
    THEN Reply(400, Message("At least one field (rating, comment, userId, propertyId) is required"))
    ELSE Await("findUnique")

PutReviewReceive(r, H) ==
    \E id \in ReviewIdInputs, body \in ReviewPutBodies, header \in H :
        Receive(r, Arrived("PUT /reviews/:id", id, body, header,
                           VerifyToken(header, clock), PutReviewEntry(body)))

PutReviewFind(r) ==
    /\ At(r, "PUT /reviews/:id", "findUnique")
    /\ req' = RowFound(r, reviews, "review", "Review not found")
    /\ UNCHANGED <<store, clock, tokens, minted, nreq>>

\* After an update in a try whose catch answers 500 whatever was thrown.
AfterUpdate(r, out) ==
    IF out.code = "ok"
    THEN AfterWrite(r, Reply(200, WithId(out.id, out.table[out.id])))
    ELSE AfterThrow(r, out.code, ServerError)

PutReviewUpdate(r) ==
    /\ At(r, "PUT /reviews/:id", "update")
    /\ LET out == ReviewUpdate(req[r].id, TruthyPart(req[r].body, ReviewFields)) IN
        /\ reviews' = out.table
        /\ req' = AfterUpdate(r, out)
    /\ UNCHANGED <<users, hosts, properties, bookings, clock, tokens, minted, nreq>>

\* A DELETE handler has no validation: it awaits the delete at once.
DeleteEntry == Await("delete")

DeleteReviewReceive(r, H) ==
    \E id \in ReviewIdInputs, header \in H :
        Receive(r, Arrived("DELETE /reviews/:id", id, EmptyBody, header,
                           VerifyToken(header, clock), DeleteEntry))

\* A catch block that reports a row that was already gone as deleted.
AfterDeleteAlways200(r, out, deleted, missing) ==
    IF out.code \in {"ok", "P2025"} THEN AfterWrite(r, Reply(200, Message(deleted)))
    ELSE AfterThrow(r, out.code, ServerError)

\* After a delete in a try whose catch answers 404 for P2025 and 500 otherwise.
AfterDelete(r, out, deleted, missing) ==
    IF out.code = "ok" THEN AfterWrite(r, Reply(200, Message(deleted)))
    ELSE IF out.code = "P2025" THEN AfterThrow(r, out.code, Reply(404, Message(missing)))
    ELSE AfterThrow(r, out.code, ServerError)

DeleteReviewDelete(r) ==
    /\ At(r, "DELETE /reviews/:id", "delete")
    /\ LET out == ReviewDelete(req[r].id) IN
        /\ reviews' = out.table
        /\ req' = AfterDelete(r, out, "Review with ID " \o req[r].id \o " deleted successfully",
                                "Review not found")
    /\ UNCHANGED <<users, hosts, properties, bookings, clock, tokens, minted, nreq>>

----------------------------------------------------------------------------
(* The bookings router (routes/reviews.js, second half) *)

BookingFields == {"startDate", "endDate", "userId", "propertyId"}

ValidDates == {"2024-01-01", "2024-01-07", "2024-02-01"}

\* new Date(text): the instant a date-only string names is midnight UTC of that
\* day; a Date is written as prisma stores it and JSON shows it, toISOString().
NewDate(text) ==
    IF text \in ValidDates THEN text \o "T00:00:00.000Z" ELSE "Invalid Date"

BookingPostBodies ==
    {[startDate |-> "2024-01-01", endDate |-> "2024-01-07", userId |-> u,
      propertyId |-> p] : u \in {"u1", "u9"}, p \in PropertyIdInputs}
    \cup {[startDate |-> "2024-01-01", userId |-> "u9", propertyId |-> "p9"]}

BookingPutBodies ==
    {EmptyBody, [endDate |-> "2024-02-01"], [endDate |-> "", userId |-> "u1"],
     [startDate |-> "next week"],
     [userId |-> "u9"], [propertyId |-> "p9"]}

PostBookingEntry(body) ==
    IF SomeFalsy(body, BookingFields)
    THEN Reply(400, Message("Start date, end date, user ID, and property ID are required"))
    ELSE Await("userExists")

PostBookingReceive(r, H) ==
    \E body \in BookingPostBodies, header \in H :
        Receive(r, Arrived("POST /bookings", "", body, header,
                           VerifyToken(header, clock), PostBookingEntry(body)))

PostBookingUser(r) ==
    /\ At(r, "POST /bookings", "userExists")
    /\ req' = UserChecked(r)
    /\ UNCHANGED <<store, clock, tokens, minted, nreq>>

PostBookingProperty(r) ==
    /\ At(r, "POST /bookings", "propertyExists")
    /\ req' = PropertyChecked(r)
    /\ UNCHANGED <<store, clock, tokens, minted, nreq>>

\* The `data` of the booking create and update: dates go through new Date().
BookingData(body) ==
    [f \in DOMAIN body |->
        IF f \in {"startDate", "endDate"} THEN NewDate(body[f]) ELSE body[f]]

DatesOk(data) ==
    \A f \in {"startDate", "endDate"} \cap DOMAIN data : data[f] # "Invalid Date"

PostBookingCreate(r) ==
    /\ At(r, "POST /bookings", "create")
    /\ FreshBookingIds \ minted # {}
    /\ LET data == BookingData([f \in BookingFields |-> req[r].body[f]])
           out == IF DatesOk(data) THEN BookingCreate(data)
                  ELSE Throws("validation", bookings) IN
        /\ bookings' = out.table
        /\ req' = AfterCreate(r, out, bookings)
        /\ minted' = MintedAfter(out, bookings)
    /\ UNCHANGED <<users, hosts, properties, reviews, clock, tokens, nreq>>

PutBookingEntry(body) ==
    IF AllFalsy(body, BookingFields)
    THEN Reply(400, Message("At least one field (startDate, endDate, userId, propertyId) is required"))
    ELSE Await("findUnique")

PutBookingReceive(r, H) ==
    \E id \in BookingIdInputs, body \in BookingPutBodies, header \in H :
        Receive(r, Arrived("PUT /bookings/:id", id, body, header,
                           VerifyToken(header, clock), PutBookingEntry(body)))

PutBookingFind(r) ==
    /\ At(r, "PUT /bookings/:id", "findUnique")
    /\ req' = RowFound(r, bookings, "booking", "Booking not found")
    /\ UNCHANGED <<store, clock, tokens, minted, nreq>>

PutBookingUpdate(r) ==
    /\ At(r, "PUT /bookings/:id", "update")
    /\ LET data == BookingData(TruthyPart(req[r].body, BookingFields))
           out == IF DatesOk(data) THEN BookingUpdate(req[r].id, data)
                  ELSE Throws("validation", bookings) IN
        /\ bookings' = out.table
        /\ req' = AfterUpdate(r, out)
    /\ UNCHANGED <<users, hosts, properties, reviews, clock, tokens, minted, nreq>>

DeleteBookingReceive(r, H) ==
    \E id \in BookingIdInputs, header \in H :
        Receive(r, Arrived("DELETE /bookings/:id", id, EmptyBody, header,
                           VerifyToken(header, clock), DeleteEntry))

DeleteBookingDelete(r) ==
    /\ At(r, "DELETE /bookings/:id", "delete")
    /\ LET out == BookingDelete(req[r].id) IN
        /\ bookings' = out.table
        /\ req' = AfterDelete(r, out, "Booking with ID " \o req[r].id \o " deleted successfully",
                                "Booking not found")
    /\ UNCHANGED <<users, hosts, properties, reviews, clock, tokens, minted, nreq>>

----------------------------------------------------------------------------
(* routes/properties.js *)

PropertyFields ==
    {"title", "description", "location", "pricePerNight", "bedroomCount",
     "bathroomCount", "maxGuestCount", "rating", "hostId"}

FullProperty(hostId, rating) ==
    [title |-> "Beautiful House", description |-> "A lovely house in the city.",
     location |-> "Malibu, California", pricePerNight |-> 310, bedroomCount |-> 3,
     bathroomCount |-> 2, maxGuestCount |-> 6, rating |-> rating, hostId |-> hostId]

PropertyPostBodies ==
    {FullProperty(h, 4) : h \in HostIdInputs}
    \cup {FullProperty("h9", 0), [title |-> "Beautiful House", hostId |-> "h9"]}

PropertyPutBodies ==
    {EmptyBody, [title |-> "", rating |-> 0], [title |-> "Renamed"],
     [hostId |-> "h9"], [rating |-> 5, hostId |-> "h1"]}

PostPropertyEntry(body) ==
    IF SomeFalsy(body, PropertyFields)
    THEN Reply(400, Message("All fields are required"))
    ELSE Await("hostExists")

PostPropertyReceive(r, H) ==
    \E body \in PropertyPostBodies, header \in H :
        Receive(r, Arrived("POST /properties", "", body, header,
                           VerifyToken(header, clock), PostPropertyEntry(body)))

PostPropertyHost(r) ==
    /\ At(r, "POST /properties", "hostExists")
    /\ req' = AfterRead(r, "hostExists", req[r].body.hostId \in hosts,
                        IF req[r].body.hostId \in hosts THEN Await("create")
                        ELSE Reply(404, Message("Host not found")))
    /\ UNCHANGED <<store, clock, tokens, minted, nreq>>

PostPropertyCreate(r) ==
    /\ At(r, "POST /properties", "create")
    /\ FreshPropertyIds \ minted # {}
    /\ LET out == PropertyCreate([f \in PropertyFields |-> req[r].body[f]]) IN
        /\ properties' = out.table
        /\ req' = AfterCreate(r, out, properties)
        /\ minted' = MintedAfter(out, properties)
    /\ UNCHANGED <<users, hosts, bookings, reviews, clock, tokens, nreq>>

PutPropertyEntry(body) ==
    IF AllFalsy(body, PropertyFields)
    THEN Reply(400, Message("At least one field (title, description, location, pricePerNight, bedroomCount, bathroomCount, maxGuestCount, rating, or hostId) is required"))
    ELSE Await("findUnique")

PutPropertyReceive(r, H) ==
    \E id \in PropertyIdInputs, body \in PropertyPutBodies, header \in H :
        Receive(r, Arrived("PUT /properties/:id", id, body, header,
                           VerifyToken(header, clock), PutPropertyEntry(body)))

PutPropertyFind(r) ==
    /\ At(r, "PUT /properties/:id", "findUnique")
    /\ req' = RowFound(r, properties, "property", "Property not found")
    /\ UNCHANGED <<store, clock, tokens, minted, nreq>>

PutPropertyUpdate(r) ==
    /\ At(r, "PUT /properties/:id", "update")
    /\ LET out == PropertyUpdate(req[r].id, TruthyPart(req[r].body, PropertyFields)) IN
        /\ properties' = out.table
        /\ req' = AfterUpdate(r, out)
    /\ UNCHANGED <<users, hosts, bookings, reviews, clock, tokens, minted, nreq>>

DeletePropertyReceive(r, H) ==
    \E id \in PropertyIdInputs, header \in H :
        Receive(r, Arrived("DELETE /properties/:id", id, EmptyBody, header,
                           VerifyToken(header, clock), DeleteEntry))

DeletePropertyDelete(r) ==
    /\ At(r, "DELETE /properties/:id", "delete")
    /\ LET out == PropertyDelete(req[r].id) IN
        /\ properties' = out.table
        /\ req' = AfterDelete(r, out, IF out.code = "ok"
                                       THEN "Property " \o properties[req[r].id].title
                                                \o " deleted successfully"
                                       ELSE "", "Property not found")
    /\ UNCHANGED <<users, hosts, bookings, reviews, clock, tokens, minted, nreq>>

----------------------------------------------------------------------------
(* The GET routes.  They are registered without verifyToken.  The requests  *)
(* modelled carry no query string, so `filters` stays {}.  The two GET      *)
(* handlers of a router, the collection and the row by id, differ in the    *)
(* store call only and are one pair of actions.                             *)

\* After findMany or findUnique ... select: the catch block's 500 when the call
\* threw, 404 when findUnique found no row, 200 with what was found.
Fetched(r, out, local, missing) ==
    IF out.code # "ok" THEN AfterThrow(r, out.code, ServerError)
    ELSE AfterRead(r, local, out.found,
                   IF out.found THEN Reply(200, out.value)
                   ELSE Reply(404, Message(missing)))

GetUsersReceive(r, H) ==
    \E header \in H :
        \/ Receive(r, Arrived("GET /users", "", EmptyBody, header, Unguarded,
                              Await("findMany")))
        \/ \E id \in UserIdInputs :
              Receive(r, Arrived("GET /users/:id", id, EmptyBody, header, Unguarded,
                                 Await("findUnique")))

GetUsersFind(r) ==
    /\ req[r].route \in {"GET /users", "GET /users/:id"}
    /\ req[r].pc \in {"findMany", "findUnique"}
    /\ LET select == {"id", "username", "email"} IN
        req' = IF req[r].pc = "findMany"
               THEN Fetched(r, FindMany(users, select, Columns.User), "users", "")
               ELSE Fetched(r, FindUnique(users, req[r].id, select, Columns.User),
                            "user", "User not found")
    /\ UNCHANGED <<store, clock, tokens, minted, nreq>>

GetReviewsReceive(r, H) ==
    \E header \in H :
        \/ Receive(r, Arrived("GET /reviews", "", EmptyBody, header, Unguarded,
                              Await("findMany")))
        \/ \E id \in ReviewIdInputs :
              Receive(r, Arrived("GET /reviews/:id", id, EmptyBody, header, Unguarded,
                                 Await("findUnique")))

GetReviewsFind(r) ==
    /\ req[r].route \in {"GET /reviews", "GET /reviews/:id"}
    /\ req[r].pc \in {"findMany", "findUnique"}
    /\ LET select == {"id", "rating", "comment", "userId", "propertyId", "createdAt"} IN
        req' = IF req[r].pc = "findMany"
               THEN Fetched(r, FindMany(reviews, select, Columns.Review), "reviews", "")
               ELSE Fetched(r, FindUnique(reviews, req[r].id, select, Columns.Review),
                            "review", "Review not found")
    /\ UNCHANGED <<store, clock, tokens, minted, nreq>>

GetBookingsReceive(r, H) ==
    \E header \in H :
        \/ Receive(r, Arrived("GET /bookings", "", EmptyBody, header, Unguarded,
                              Await("findMany")))
        \/ \E id \in BookingIdInputs :
              Receive(r, Arrived("GET /bookings/:id", id, EmptyBody, header, Unguarded,
                                 Await("findUnique")))

GetBookingsFind(r) ==
    /\ req[r].route \in {"GET /bookings", "GET /bookings/:id"}
    /\ req[r].pc \in {"findMany", "findUnique"}
    /\ LET select == {"id", "startDate", "endDate", "userId", "propertyId",
                      "createdAt"} IN
        req' = IF req[r].pc = "findMany"
               THEN Fetched(r, FindMany(bookings, select, Columns.Booking),
                            "bookings", "")
               ELSE Fetched(r, FindUnique(bookings, req[r].id, select, Columns.Booking),
                            "booking", "Booking not found")
    /\ UNCHANGED <<store, clock, tokens, minted, nreq>>

GetPropertiesReceive(r, H) ==
    \E header \in H :
        \/ Receive(r, Arrived("GET /properties", "", EmptyBody, header, Unguarded,
                              Await("findMany")))
        \/ \E id \in PropertyIdInputs :
              Receive(r, Arrived("GET /properties/:id", id, EmptyBody, header,
                                 Unguarded, Await("findUnique")))

GetPropertiesFind(r) ==
    /\ req[r].route \in {"GET /properties", "GET /properties/:id"}
    /\ req[r].pc \in {"findMany", "findUnique"}
    /\ LET select == {"id", "title", "description", "location", "pricePerNight",
                      "bedroomCount", "bathroomCount", "maxGuestCount", "rating",
                      "hostId", "createdAt"} IN
        req' = IF req[r].pc = "findMany"
               THEN Fetched(r, FindMany(properties, select, Columns.Property),
                            "properties", "")
               ELSE Fetched(r, FindUnique(properties, req[r].id, select,
                                          Columns.Property),
                            "property", "Property not found")
    /\ UNCHANGED <<store, clock, tokens, minted, nreq>>

----------------------------------------------------------------------------
(* Specifications *)

Init ==
    /\ users = SeedUsers
    /\ hosts = SeedHosts
    /\ properties = SeedProperties
    /\ bookings = SeedBookings
    /\ reviews = SeedReviews
    /\ clock = 0
    /\ tokens = {}
    /\ req = [r \in Slots |-> Idle]
    /\ minted = SeedIds
    /\ nreq = 0

\* A state after two logins: jdoe's token was issued just now, asmith's
\* ExpiresInHours ago.
InitSession ==
    /\ users = SeedUsers
    /\ hosts = SeedHosts
    /\ properties = SeedProperties
    /\ bookings = SeedBookings
    /\ reviews = SeedReviews
    /\ clock = ExpiresInHours
    /\ tokens = {JwtSign([userId |-> "u1", username |-> "jdoe"], JWT_SECRET,
                         ExpiresInHours),
                 JwtSign([userId |-> "u2", username |-> "asmith"], JWT_SECRET, 0)}
    /\ req = [r \in Slots |-> Idle]
    /\ minted = SeedIds
    /\ nreq = 0

\* An hour passes.
Tick ==
    /\ clock < MaxClock
    /\ clock' = clock + 1
    /\ UNCHANGED <<store, tokens, req, minted, nreq>>

\* The whole API, one request at a time, with every kind of header.
Next ==
    \E r \in {"s1"} :
          LET H == LoginHeaders \cup BadHeaders \cup IdClaimHeaders IN
          \/ LoginReceive(r)
          \/ LoginFind(r)
          \/ PostUserReceive(r, H)
          \/ PostUserFind(r)
          \/ PostUserCreate(r)
          \/ PutUserReceive(r, H)
          \/ PutUserFind(r)
          \/ PutUserUpdate(r)
          \/ DeleteUserReceive(r, H)
          \/ DeleteUserDelete(r)
          \/ PostReviewReceive(r, H)
          \/ PostReviewUser(r)
          \/ PostReviewProperty(r)
          \/ PostReviewCreate(r)
          \/ PutReviewReceive(r, H)
          \/ PutReviewFind(r)
          \/ PutReviewUpdate(r)
          \/ DeleteReviewReceive(r, H)
          \/ DeleteReviewDelete(r)
          \/ PostBookingReceive(r, H)
          \/ PostBookingUser(r)
          \/ PostBookingProperty(r)
          \/ PostBookingCreate(r)
          \/ PutBookingReceive(r, H)
          \/ PutBookingFind(r)
          \/ PutBookingUpdate(r)
          \/ DeleteBookingReceive(r, H)
          \/ DeleteBookingDelete(r)
          \/ PostPropertyReceive(r, H)
          \/ PostPropertyHost(r)
          \/ PostPropertyCreate(r)
          \/ PutPropertyReceive(r, H)
          \/ PutPropertyFind(r)
          \/ PutPropertyUpdate(r)
          \/ DeletePropertyReceive(r, H)
          \/ DeletePropertyDelete(r)
          \/ GetUsersReceive(r, H)
          \/ GetUsersFind(r)
          \/ GetReviewsReceive(r, H)
          \/ GetReviewsFind(r)
          \/ GetBookingsReceive(r, H)
          \/ GetBookingsFind(r)
          \/ GetPropertiesReceive(r, H)
          \/ GetPropertiesFind(r)
          \/ Close(r)

Spec == InitSession /\ [][Next]_vars

\* Login and the users router, requests interleaved.
NextUsers ==
    \E r \in Slots :
        LET H == LoginHeaders \cup IdClaimHeaders \cup {NoHeader} IN
        \/ LoginReceive(r)
        \/ LoginFind(r)
        \/ PostUserReceive(r, H)
        \/ PostUserFind(r)
        \/ PostUserCreate(r)
        \/ PutUserReceive(r, H)
        \/ PutUserFind(r)
        \/ PutUserUpdate(r)
        \/ DeleteUserReceive(r, H)
        \/ DeleteUserDelete(r)
        \/ Close(r)

SpecUsers == Init /\ [][NextUsers]_vars

\* Time passes between a login and the requests that carry its token.
NextAuth ==
    \/ Tick
    \/ \E r \in Slots :
          LET H == LoginHeaders \cup {NoHeader} IN
          \/ LoginReceive(r)
          \/ LoginFind(r)
          \/ DeleteBookingReceive(r, H)
          \/ DeleteBookingDelete(r)
          \/ Close(r)

SpecAuth == Init /\ [][NextAuth]_vars

\* Updates and deletes of the same rows, interleaved, all with jdoe's token.
NextRace ==
    \E r \in Slots :
        LET H == {h \in LoginHeaders : ~JwtVerifyThrows(ExtractToken(h), JWT_SECRET, clock)} IN
        \/ PutReviewReceive(r, H)
        \/ PutReviewFind(r)
        \/ PutReviewUpdate(r)
        \/ DeleteReviewReceive(r, H)
        \/ DeleteReviewDelete(r)
        \/ PutBookingReceive(r, H)
        \/ PutBookingFind(r)
        \/ PutBookingUpdate(r)
        \/ DeleteBookingReceive(r, H)
        \/ DeleteBookingDelete(r)
        \/ PutPropertyReceive(r, H)
        \/ PutPropertyFind(r)
        \/ PutPropertyUpdate(r)
        \/ DeletePropertyReceive(r, H)
        \/ DeletePropertyDelete(r)
        \/ Close(r)

SpecRace == InitSession /\ [][NextRace]_vars

\* The session above after DELETE /bookings/b1 and DELETE /reviews/r1: no row
\* references property p1 any more.
InitCleared ==
    /\ users = SeedUsers
    /\ hosts = SeedHosts
    /\ properties = SeedProperties
    /\ bookings = Remove(SeedBookings, "b1")
    /\ reviews = Remove(SeedReviews, "r1")
    /\ clock = ExpiresInHours
    /\ tokens = {JwtSign([userId |-> "u1", username |-> "jdoe"], JWT_SECRET,
                         ExpiresInHours),
                 JwtSign([userId |-> "u2", username |-> "asmith"], JWT_SECRET, 0)}
    /\ req = [r \in Slots |-> Idle]
    /\ minted = SeedIds
    /\ nreq = 0

\* Creates of reviews and bookings interleaved with deletes of the property
\* and of the user they name: jdoe's token, and for DELETE /users/:id, which
\* asks for the owner, tokens with an id claim.
NextCreate ==
    \E r \in Slots :
        LET H == {h \in LoginHeaders : ~JwtVerifyThrows(ExtractToken(h), JWT_SECRET, clock)} IN
        \/ PostReviewReceive(r, H)
        \/ PostReviewUser(r)
        \/ PostReviewProperty(r)
        \/ PostReviewCreate(r)
        \/ PostBookingReceive(r, H)
        \/ PostBookingUser(r)
        \/ PostBookingProperty(r)
        \/ PostBookingCreate(r)
        \/ DeletePropertyReceive(r, H)
        \/ DeletePropertyDelete(r)
        \/ DeleteUserReceive(r, IdClaimHeaders)
        \/ DeleteUserDelete(r)
        \/ Close(r)

SpecCreate == InitCleared /\ [][NextCreate]_vars

\* The store as migrated and not seeded: no user, hence no booking and no
\* review; no token was ever issued.
InitFresh ==
    /\ users = [i \in {} |-> EmptyBody]
    /\ hosts = SeedHosts
    /\ properties = SeedProperties
    /\ bookings = [i \in {} |-> EmptyBody]
    /\ reviews = [i \in {} |-> EmptyBody]
    /\ clock = 0
    /\ tokens = {}
    /\ req = [r \in Slots |-> Idle]
    /\ minted = {"h1", "p1"}
    /\ nreq = 0

\* Logins, sign-ups, reads of users and deletes of bookings by clients who hold
\* nothing but what the API gave them: the tokens login issued, in an
\* authorization header of any form, or no token, or one that is not valid.
NextFresh ==
    \E r \in Slots :
        LET H == LoginHeaders \cup BadHeaders \cup OtherSchemeHeaders IN
        \/ LoginReceive(r)
        \/ LoginFind(r)
        \/ PostUserReceive(r, H)
        \/ PostUserFind(r)
        \/ PostUserCreate(r)
        \/ GetUsersReceive(r, {NoHeader})
        \/ GetUsersFind(r)
        \/ DeleteBookingReceive(r, H)
        \/ DeleteBookingDelete(r)
        \/ Close(r)

\* The same clients on the seeded store and on the store without users.
SpecFresh == (Init \/ InitFresh) /\ [][NextFresh]_vars

\* The promise the handler in slot r awaits settles and the handler runs on to
\* its next await or to its response.
Settle(r) ==
    /\ req[r].pc \notin {"idle", "done"}
    /\ Next
    /\ req'[r] # req[r]

\* The session with all routes, on an event loop that runs the continuation of
\* every settled store call.
SpecSettle == Spec /\ \A r \in Slots : WF_vars(Settle(r))

----------------------------------------------------------------------------
(* Properties *)

\* The identity a token payload stands for: userId in the tokens of POST /login,
\* id in the tokens of the other issuer.
SubjectOf(user) == IF Has(user, "userId") THEN user.userId ELSE Get(user, "id")

IsDone(q) == q.pc = "done"

ByLoginToken(q) ==
    /\ q.mw = "Authorized"
    /\ ExtractToken(q.header) \in tokens

UserWrite(q) == q.route \in {"PUT /users/:id", "DELETE /users/:id"}

\* An authorized PUT or DELETE /users/:id whose token subject is not :id.
CrossIdentity(q) ==
    /\ UserWrite(q)
    /\ q.mw = "Authorized"
    /\ SubjectOf(q.user) # q.id

SuppliesUserField(q) ==
    \E f \in {"username", "email", "password"} : Truthy(q.body, f)

\* C1: no step of a PUT or DELETE /users/:id that carries a valid token of an
\* identity other than :id changes the users table, and the request is answered
\* 403 (a PUT when it supplies username, email or password; every DELETE).
C1_NoCrossIdentityMutation ==
    [][\A r \in Slots :
          (req'[r] # req[r] /\ CrossIdentity(req'[r])) =>
              /\ users' = users
              /\ (req'[r].route = "DELETE /users/:id" \/ SuppliesUserField(req'[r])) =>
                    (IsDone(req'[r]) /\ req'[r].res.status = 403)]_vars

C1_Witness ==
    \E r \in Slots :
        /\ CrossIdentity(req[r])
        /\ ByLoginToken(req[r])
        /\ req[r].id \in DOMAIN users
        /\ IsDone(req[r])
        /\ req[r].res.status = 403

\* An answered PUT or DELETE /users/:id carrying the token login issued for the
\* user :id.
OwnAccount(q, route) ==
    /\ q.route = route
    /\ IsDone(q)
    /\ ByLoginToken(q)
    /\ q.user.userId = q.id

\* C2: a PUT /users/:id with the token login issued for the existing user :id
\* and at least one of username, email, password is answered 200 with the
\* updated user, and the supplied fields are stored.
C2_OwnUpdateSucceeds ==
    \A r \in Slots :
        (OwnAccount(req[r], "PUT /users/:id") /\ SuppliesUserField(req[r])) =>
            /\ req[r].res.status = 200
            /\ req[r].id \in DOMAIN users
            /\ \A f \in {"username", "email", "password"} :
                  Truthy(req[r].body, f) => users[req[r].id][f] = req[r].body[f]

\* C3: a DELETE /users/:id with the token login issued for the existing user
\* :id, who has no bookings or reviews, is answered 200 and the row is gone.
C3_OwnDeleteSucceeds ==
    \A r \in Slots :
        (OwnAccount(req[r], "DELETE /users/:id") /\ ~UserReferenced(req[r].id)) =>
            /\ req[r].res.status = 200
            /\ req[r].id \notin DOMAIN users

----------------------------------------------------------------------------
(* The middleware *)

ProtectedRoutes ==
    {"POST /users", "PUT /users/:id", "DELETE /users/:id",
     "POST /reviews", "PUT /reviews/:id", "DELETE /reviews/:id",
     "POST /bookings", "PUT /bookings/:id", "DELETE /bookings/:id",
     "POST /properties", "PUT /properties/:id", "DELETE /properties/:id"}

IsProtected(q) == q.route \in ProtectedRoutes

TokenOf(q) == ExtractToken(q.header)

Rejected401(q) ==
    /\ IsDone(q)
    /\ q.res.status = 401
    /\ q.handler = 0
    /\ q.reads = 0
    /\ q.writes = 0

\* C4: a protected request carrying a token that login issued at time iat is
\* let through by the middleware when it arrives before iat + 7h and is
\* answered 401 when it arrives at iat + 7h or later.
C4_TokenLifetime ==
    \A r \in Slots :
        (IsProtected(req[r]) /\ TokenOf(req[r]) \in tokens) =>
            LET iat == TokenOf(req[r]).payload.iat IN
            /\ req[r].at < iat + ExpiresInHours =>
                  (req[r].mw = "Authorized" /\ req[r].res.status # 401)
            /\ req[r].at >= iat + ExpiresInHours =>
                  (req[r].mw = "InvalidToken" /\ Rejected401(req[r]))

\* A request that arrived at the very hour its token expired, and was rejected.
C4_Witness ==
    \E r \in Slots :
        /\ IsProtected(req[r])
        /\ TokenOf(req[r]) \in tokens
        /\ TokenOf(req[r]).payload.iat > 0
        /\ req[r].at = TokenOf(req[r]).payload.iat + ExpiresInHours
        /\ Rejected401(req[r])

\* A token that is present and that jwt.verify cannot accept at time now.
BadToken(token, now) ==
    /\ token.kind # "undefined"
    /\ ~(token.kind = "word" /\ token.text = "")
    /\ \/ token.kind # "jwt"
       \/ token.key # JWT_SECRET
       \/ Has(token.payload, "exp") /\ token.payload.exp <= now

\* C5: a protected request whose token is malformed, signed with another key
\* or expired is answered 401 by the middleware; its handler never runs and it
\* reads and writes nothing in the store.
C5_BadTokenRejected ==
    \A r \in Slots :
        (IsProtected(req[r]) /\ BadToken(TokenOf(req[r]), req[r].at)) =>
            /\ req[r].mw = "InvalidToken"
            /\ Rejected401(req[r])
            /\ req[r].res.json = Message("Invalid or expired token")

C5_Witness ==
    \E r \in Slots :
        /\ IsProtected(req[r])
        /\ TokenOf(req[r]) \in tokens
        /\ TokenOf(req[r]).payload.exp <= req[r].at
        /\ Rejected401(req[r])

\* C6: every protected request leaves the middleware in exactly one of
\* MissingCredential, InvalidToken, Authorized; without a token it is answered
\* 401 and reaches no handler; the claim is attached and the handler invoked,
\* once, in the Authorized outcome only.
C6_MiddlewareOutcome ==
    \A r \in Slots :
        IsProtected(req[r]) =>
            /\ req[r].mw \in {"MissingCredential", "InvalidToken", "Authorized"}
            /\ (TokenOf(req[r]).kind = "undefined") =>
                  /\ req[r].mw = "MissingCredential"
                  /\ Rejected401(req[r])
                  /\ req[r].res.json = Message("No token provided, authorization denied")
            /\ req[r].mw # "Authorized" =>
                  (Rejected401(req[r]) /\ req[r].user = EmptyBody)
            /\ req[r].mw = "Authorized" =>
                  (req[r].handler = 1 /\ req[r].user = TokenOf(req[r]).payload)

C6_Witness ==
    \E r \in Slots :
        /\ IsProtected(req[r])
        /\ ~req[r].header.present
        /\ req[r].mw = "MissingCredential"
        /\ Rejected401(req[r])

\* C7: a step that changes the store is a step of a request the middleware
\* authorized; a POST, PUT or DELETE on users, reviews, bookings or properties
\* that it did not authorize is answered 401 and changes nothing.
C7_WritesAreAuthorized ==
    [][/\ store' # store =>
            \E r \in Slots : req'[r] # req[r] /\ req[r].mw = "Authorized"
       /\ \A r \in Slots :
            (req'[r] # req[r] /\ IsProtected(req'[r]) /\ req'[r].mw # "Authorized") =>
                (store' = store /\ IsDone(req'[r]) /\ req'[r].res.status = 401)]_vars

\* A row was created by an authorized request.
C7_Witness ==
    \E r \in Slots :
        /\ IsProtected(req[r])
        /\ req[r].mw = "Authorized"
        /\ req[r].res.status = 201
        /\ req[r].writes = 1

----------------------------------------------------------------------------
(* The reference checks *)

JsonMessage(q) == Get(q.res.json, "message")

AuthorizedAt(q, routes) == q.route \in routes /\ q.mw = "Authorized"

\* The message POST /bookings and POST /reviews owe a body whose user or
\* property is not in the store, the user being looked up first.
FirstMissing(body) ==
    IF body.userId \notin DOMAIN users THEN "User not found"
    ELSE IF body.propertyId \notin DOMAIN properties THEN "Property not found"
    ELSE "none"

DanglingRefs(q) ==
    {f \in {"userId", "propertyId"} \cap DOMAIN q.body :
        /\ Truthy(q.body, f)
        /\ q.body[f] \notin (IF f = "userId" THEN DOMAIN users ELSE DOMAIN properties)}
    \cup {f \in {"hostId"} \cap DOMAIN q.body :
            Truthy(q.body, f) /\ q.body[f] \notin hosts}

TargetExists(q) ==
    \/ q.route = "PUT /reviews/:id" /\ q.id \in DOMAIN reviews
    \/ q.route = "PUT /bookings/:id" /\ q.id \in DOMAIN bookings
    \/ q.route = "PUT /properties/:id" /\ q.id \in DOMAIN properties

\* C9: an authorized PUT /bookings/:id, /reviews/:id or /properties/:id on an
\* existing row whose body carries a userId, propertyId or hostId that names
\* no stored row is answered 404.
C9_PutMissingReference404 ==
    \A r \in Slots :
        (/\ IsDone(req[r])
         /\ req[r].mw = "Authorized"
         /\ TargetExists(req[r])
         /\ DanglingRefs(req[r]) # {}) =>
            req[r].res.status = 404

\* C10: a PUT or DELETE whose own store mutation fails with row-not-found
\* (P2025), the row having been removed by another request in the meantime, is
\* answered 404.
C10_RowNotFoundIs404 ==
    \A r \in Slots :
        (IsDone(req[r]) /\ req[r].err = "P2025") => req[r].res.status = 404

----------------------------------------------------------------------------
(* Races between a create and the delete of a row it references *)

\* The existence checks of a POST /reviews, /bookings or /properties all found
\* their rows.
ChecksPassed(q) ==
    \/ /\ q.route \in {"POST /reviews", "POST /bookings"}
       /\ Has(q.found, "userExists") /\ q.found.userExists
       /\ Has(q.found, "propertyExists") /\ q.found.propertyExists
    \/ /\ q.route = "POST /properties"
       /\ Has(q.found, "hostExists") /\ q.found.hostExists

\* C11: an authorized POST /bookings, /reviews or /properties whose existence
\* checks passed and whose create then failed on a missing reference (the row
\* was deleted by another request in between) is answered 404 and has created
\* no row.
C11_VanishedReference404 ==
    \A r \in Slots :
        (/\ IsDone(req[r])
         /\ req[r].mw = "Authorized"
         /\ ChecksPassed(req[r])
         /\ req[r].err = "P2003") =>
            (req[r].res.status = 404 /\ req[r].writes = 0)

----------------------------------------------------------------------------
(* Deleting twice *)

DeleteByIdRoutes ==
    {"DELETE /reviews/:id", "DELETE /bookings/:id", "DELETE /properties/:id"}

\* The ids of the rows of the table a DELETE route works on, the tables being
\* v (reviews), b (bookings) and p (properties).
IdsAt(route, v, b, p) ==
    IF route = "DELETE /reviews/:id" THEN DOMAIN v
    ELSE IF route = "DELETE /bookings/:id" THEN DOMAIN b
    ELSE DOMAIN p

\* C12: the delete step of an authorized DELETE on reviews, bookings or
\* properties is answered 200 only if the row was there, and then the row is
\* gone; when the row is not there (never was, or an earlier or concurrent
\* DELETE removed it) it is answered 404 and changes nothing; and an id that
\* was given out and whose row is gone never names a row again.  So a second
\* DELETE of an id follows a 200 with a 404, and of several concurrent DELETEs
\* of one id at most one is answered 200.
C12_DeleteOnce ==
    [][/\ \A r \in Slots :
            (/\ req[r].route \in DeleteByIdRoutes
             /\ req[r].pc = "delete"
             /\ req'[r].pc = "done") =>
                LET before == IdsAt(req[r].route, reviews, bookings, properties)
                    after == IdsAt(req[r].route, reviews', bookings', properties') IN
                /\ req[r].id \notin before =>
                      (req'[r].res.status = 404 /\ store' = store)
                /\ req'[r].res.status = 200 =>
                      (req[r].id \in before /\ req[r].id \notin after)
       /\ \A i \in minted :
            /\ i \notin DOMAIN reviews => i \notin DOMAIN reviews'
            /\ i \notin DOMAIN bookings => i \notin DOMAIN bookings'
            /\ i \notin DOMAIN properties => i \notin DOMAIN properties']_vars

\* Two DELETEs of the same review: one answered 200, the other 404.
C12_Witness ==
    \E r, o \in Slots :
        /\ r # o
        /\ req[r].route \in DeleteByIdRoutes
        /\ req[o].route = req[r].route
        /\ req[o].id = req[r].id
        /\ req[o].res.status = 200
        /\ req[r].res.status = 404
        /\ req[r].err = "P2025"

----------------------------------------------------------------------------
(* Login *)

CredentialMissing(body) ==
    \/ ~Has(body, "username") \/ body.username = ""
    \/ ~Has(body, "password") \/ body.password = ""

\* The stored users a (username, password) pair logs in as.
Matching(body) ==
    {i \in DOMAIN users :
        users[i].username = body.username /\ users[i].password = body.password}

\* C13: POST /login is answered 400 when username or password is missing;
\* otherwise 401 "Invalid credentials" when no stored user has that username
\* with exactly that password; otherwise 200 with a token signed with the
\* secret whose payload carries that user's id and username.
C13_LoginOutcome ==
    [][\A r \in Slots :
          LET q == req'[r] IN
          (q # req[r] /\ q.route = "POST /login") =>
              /\ CredentialMissing(q.body) => (IsDone(q) /\ q.res.status = 400)
              /\ (IsDone(q) /\ ~CredentialMissing(q.body)) =>
                    IF Matching(q.body) = {}
                    THEN /\ q.res.status = 401
                         /\ q.res.json = Message("Invalid credentials")
                    ELSE /\ q.res.status = 200
                         /\ DOMAIN q.res.json = {"token"}
                         /\ ~JwtVerifyThrows(q.res.json.token, JWT_SECRET, clock)
                         /\ \E i \in Matching(q.body) :
                               /\ q.res.json.token.payload.userId = i
                               /\ q.res.json.token.payload.username = users[i].username]_vars

\* A login with jdoe's password in another letter case, refused.
C13_Witness ==
    \E r \in Slots :
        /\ req[r].route = "POST /login"
        /\ IsDone(req[r])
        /\ \E i \in DOMAIN users :
              /\ users[i].username = Get(req[r].body, "username")
              /\ users[i].password = "secret"
              /\ Get(req[r].body, "password") = "Secret"
        /\ req[r].res.status = 401

----------------------------------------------------------------------------
(* Unique usernames and emails *)

\* An answered, authorized POST /users whose username or email was taken: when
\* the handler looked, or when its create reached the store.
TakenAtSignup(q) ==
    /\ q.route = "POST /users"
    /\ q.mw = "Authorized"
    /\ IsDone(q)
    /\ \/ Has(q.found, "existingUser") /\ q.found.existingUser
       \/ q.err = "P2002"

\* C14: an authorized POST /users whose username or email is already taken,
\* also when it was taken by a concurrent POST /users between this one's
\* lookup and its create, is answered 400 and creates no user.
C14_DuplicateIs400 ==
    \A r \in Slots :
        TakenAtSignup(req[r]) => (req[r].res.status = 400 /\ req[r].writes = 0)

\* C15: no two stored users share a username, and no two share an email.
C15_UniqueUsers ==
    \A i, j \in DOMAIN users :
        i # j => (users[i].username # users[j].username /\ users[i].email # users[j].email)

\* A create or an update that would have made a duplicate reached the store
\* and was refused there.
C15_Witness ==
    \E r \in Slots :
        /\ req[r].route \in {"POST /users", "PUT /users/:id"}
        /\ IsDone(req[r])
        /\ req[r].err = "P2002"
        /\ Cardinality(DOMAIN users) >= 2

----------------------------------------------------------------------------
(* Passwords stay in the store *)

UsersRoutes ==
    {"GET /users", "GET /users/:id", "POST /users", "PUT /users/:id",
     "DELETE /users/:id"}

\* The JSON objects of a response body: the elements of an array, or the
\* object itself.
ObjectsOf(json) == IF Has(json, "array") THEN json.array ELSE {json}

\* C16: no response of a /users route, whatever its status, has a password
\* field.
C16_NoPasswordInResponse ==
    \A r \in Slots :
        req[r].route \in UsersRoutes =>
            \A o \in ObjectsOf(req[r].res.json) : ~Has(o, "password")

\* A user was created and the response shows the new row, whose stored form
\* has a password.
C16_Witness ==
    \E r \in Slots :
        /\ req[r].route = "POST /users"
        /\ req[r].res.status = 201
        /\ Has(req[r].res.json, "username")
        /\ req[r].res.json.id \in DOMAIN users
        /\ users[req[r].res.json.id].password = req[r].body.password

----------------------------------------------------------------------------
(* Creating a review, a booking or a property *)

CreateRoutes == {"POST /reviews", "POST /bookings", "POST /properties"}

FieldsOf(route) ==
    IF route = "POST /reviews" THEN ReviewFields
    ELSE IF route = "POST /bookings" THEN BookingFields
    ELSE PropertyFields

\* The table a POST route adds to, the tables being v, b and p.
TableAt(route, v, b, p) ==
    IF route = "POST /reviews" THEN v
    ELSE IF route = "POST /bookings" THEN b
    ELSE p

\* The body carries every field of the route, and the rows it names exist.
Creatable(q) ==
    /\ FieldsOf(q.route) \subseteq DOMAIN q.body
    /\ IF q.route = "POST /properties" THEN q.body.hostId \in hosts
       ELSE q.body.userId \in DOMAIN users /\ q.body.propertyId \in DOMAIN properties

\* The row the body asks for: its fields, the dates as instants.
RowAsked(q) ==
    [f \in FieldsOf(q.route) |->
        IF f \in {"startDate", "endDate"} THEN NewDate(q.body[f]) ELSE q.body[f]]

\* C17: the step that answers an authorized POST /properties, /bookings or
\* /reviews whose body carries every required field and whose host, user and
\* property exist answers 201 with the created row, adds exactly that one row,
\* with the supplied values, to its table, and changes nothing else.
C17_CreateSucceeds ==
    [][\A r \in Slots :
          LET q == req'[r] IN
          (/\ q # req[r]
           /\ IsDone(q)
           /\ AuthorizedAt(q, CreateRoutes)
           /\ Creatable(q)) =>
              LET before == TableAt(q.route, reviews, bookings, properties)
                  after == TableAt(q.route, reviews', bookings', properties') IN
              /\ q.res.status = 201
              /\ \E i \in DOMAIN after \ DOMAIN before :
                    /\ after = Insert(before, i, RowAsked(q))
                    /\ q.res.json = WithId(i, RowAsked(q))
              /\ users' = users /\ hosts' = hosts
              /\ q.route # "POST /reviews" => reviews' = reviews
              /\ q.route # "POST /bookings" => bookings' = bookings
              /\ q.route # "POST /properties" => properties' = properties]_vars

----------------------------------------------------------------------------
(* Creating a user *)

\* C18: the step that answers an authorized POST /users whose body is a
\* username and an email that no stored user has and a password, without name
\* and phone number, answers 201 with the username and the email.
C18_MinimalSignup ==
    [][\A r \in Slots :
          LET q == req'[r] IN
          (/\ q # req[r]
           /\ IsDone(q)
           /\ AuthorizedAt(q, {"POST /users"})
           /\ DOMAIN q.body = {"username", "email", "password"}
           /\ ~SomeFalsy(q.body, {"username", "email", "password"})
           /\ UserFindFirst(q.body.username, q.body.email) = {}) =>
              /\ q.res.status = 201
              /\ Get(q.res.json, "username") = q.body.username
              /\ Get(q.res.json, "email") = q.body.email]_vars

----------------------------------------------------------------------------
(* Reading *)

GetByIdRoutes ==
    {"GET /users/:id", "GET /reviews/:id", "GET /bookings/:id", "GET /properties/:id"}

GetCollectionRoutes == {"GET /users", "GET /reviews", "GET /bookings", "GET /properties"}

\* The ids of the rows a GET by id looks among.
IdsRead(route) ==
    IF route = "GET /users/:id" THEN DOMAIN users
    ELSE IF route = "GET /reviews/:id" THEN DOMAIN reviews
    ELSE IF route = "GET /bookings/:id" THEN DOMAIN bookings
    ELSE DOMAIN properties

\* C19: no step of a GET changes the store; a GET reaches its handler whatever
\* the authorization header is; a GET by id is answered 200 with the row of
\* that id when there is one and 404 when there is none; a GET of a collection
\* is answered 200 with an array.
C19_GetOutcome ==
    [][\A r \in Slots :
          LET q == req'[r] IN
          (q # req[r] /\ q.route \in GetByIdRoutes \cup GetCollectionRoutes) =>
              /\ store' = store
              /\ q.handler = 1
              /\ (IsDone(q) /\ q.route \in GetByIdRoutes) =>
                    IF q.id \in IdsRead(q.route)
                    THEN q.res.status = 200 /\ Get(q.res.json, "id") = q.id
                    ELSE q.res.status = 404
              /\ (IsDone(q) /\ q.route \in GetCollectionRoutes) =>
                    (q.res.status = 200 /\ Has(q.res.json, "array"))]_vars

----------------------------------------------------------------------------
(* The order of the checks in the users router *)

\* C20: an authorized PUT /users/:id without a truthy username, email or
\* password is answered 400, whoever the token names, before any store call;
\* a PUT or DELETE /users/:id answered 403 has made no store call, and the step
\* that answers it leaves the store as it was.
C20_ValidateThenOwnThenStore ==
    [][\A r \in Slots :
          LET q == req'[r] IN
          (q # req[r] /\ UserWrite(q) /\ q.mw = "Authorized") =>
              /\ (q.route = "PUT /users/:id" /\ ~SuppliesUserField(q)) =>
                    /\ IsDone(q) /\ q.res.status = 400
                    /\ q.reads = 0 /\ q.writes = 0
                    /\ store' = store
              /\ q.res.status = 403 =>
                    /\ req[r].pc = "idle"
                    /\ q.reads = 0 /\ q.writes = 0
                    /\ store' = store]_vars

\* A PUT with nothing to update, by a token of someone else, answered 400; and
\* a DELETE answered 403.
C20_Witness ==
    \E r, o \in Slots :
        /\ req[r].route = "PUT /users/:id"
        /\ req[r].mw = "Authorized"
        /\ ~SuppliesUserField(req[r])
        /\ SubjectOf(req[r].user) # req[r].id
        /\ req[r].res.status = 400
        /\ req[o].route = "DELETE /users/:id"
        /\ req[o].res.status = 403

----------------------------------------------------------------------------
(* Updating *)

PutRoutes ==
    {"PUT /users/:id", "PUT /reviews/:id", "PUT /bookings/:id", "PUT /properties/:id"}

\* The fields a PUT route can change.
Updatable(route) ==
    IF route = "PUT /users/:id" THEN {"username", "email", "password"}
    ELSE IF route = "PUT /reviews/:id" THEN ReviewFields
    ELSE IF route = "PUT /bookings/:id" THEN BookingFields
    ELSE PropertyFields

\* The table a PUT route works on, the tables being u, v, b and p.
PutTable(route, u, v, b, p) ==
    IF route = "PUT /users/:id" THEN u
    ELSE IF route = "PUT /reviews/:id" THEN v
    ELSE IF route = "PUT /bookings/:id" THEN b
    ELSE p

\* The value the payload gives field f: a date as the instant it names.
Given(body, f) ==
    IF f \in {"startDate", "endDate"} THEN NewDate(body[f]) ELSE body[f]

\* C21: an authorized PUT on a user, review, booking or property without a
\* truthy updatable field (absent, 0 or "") is answered 400 with no store call;
\* the step that answers a PUT with 200 gives the updatable fields that are
\* truthy in the payload their payload values and leaves every other field of
\* the row, every other row and every other table as it was.
C21_UpdateFrame ==
    [][\A r \in Slots :
          LET q == req'[r] IN
          (q # req[r] /\ q.route \in PutRoutes /\ q.mw = "Authorized") =>
              /\ AllFalsy(q.body, Updatable(q.route)) =>
                    /\ IsDone(q) /\ q.res.status = 400
                    /\ q.reads = 0 /\ q.writes = 0
                    /\ store' = store
              /\ (IsDone(q) /\ q.res.status = 200) =>
                    LET before == PutTable(q.route, users, reviews, bookings, properties)
                        after == PutTable(q.route, users', reviews', bookings', properties')
                    IN
                    /\ q.id \in DOMAIN before
                    /\ DOMAIN after = DOMAIN before
                    /\ \A i \in DOMAIN before \ {q.id} : after[i] = before[i]
                    /\ DOMAIN after[q.id] = DOMAIN before[q.id]
                    /\ \A f \in DOMAIN before[q.id] :
                          after[q.id][f] =
                              IF f \in Updatable(q.route) /\ Truthy(q.body, f)
                              THEN Given(q.body, f) ELSE before[q.id][f]
                    /\ hosts' = hosts
                    /\ q.route # "PUT /users/:id" => users' = users
                    /\ q.route # "PUT /reviews/:id" => reviews' = reviews
                    /\ q.route # "PUT /bookings/:id" => bookings' = bookings
                    /\ q.route # "PUT /properties/:id" => properties' = properties]_vars

\* A review was updated by a payload whose rating is 0: the comment is the
\* payload's, the rating is still the stored one.
C21_Witness ==
    \E r \in Slots :
        /\ req[r].route = "PUT /reviews/:id"
        /\ req[r].res.status = 200
        /\ Has(req[r].body, "rating") /\ req[r].body.rating = 0
        /\ req[r].id \in DOMAIN reviews
        /\ reviews[req[r].id].rating = 5
        /\ reviews[req[r].id].comment = req[r].body.comment

----------------------------------------------------------------------------
(* Termination *)

Statuses == {200, 201, 400, 401, 403, 404, 500}

\* The store call of a DELETE by id that finds no row: the one failure the
\* handlers expect.
RowMissing(q) ==
    /\ q.route \in DeleteByIdRoutes \cup {"DELETE /users/:id"}
    /\ q.err = "P2025"

\* C22: a request has no response until it is done, and then one response with
\* a status among 200, 201, 400, 401, 403, 404, 500 that is not replaced; the
\* step in which a store call throws ends the request (no further store call,
\* store unchanged), with 500 unless the failure is the missing row of a
\* DELETE; and, the event loop running every settled store call's
\* continuation, every request received is eventually done.
C22_Terminates ==
    /\ [](\A r \in Slots :
            IF IsDone(req[r]) THEN req[r].res.status \in Statuses
            ELSE req[r].res = NoResponse)
    /\ [][\A r \in Slots :
            LET p == req[r]
                q == req'[r]
            IN
            /\ (IsDone(p) /\ q # p) => q = Idle
            /\ (q.err # "" /\ p.err = "") =>
                  /\ IsDone(q)
                  /\ q.res.status = IF RowMissing(q) THEN 404 ELSE 500
                  /\ q.reads = p.reads /\ q.writes = p.writes
                  /\ store' = store]_vars
    /\ \A r \in Slots : (req[r].pc # "idle") ~> IsDone(req[r])

\* An update whose store call threw was answered 500 after one read and no
\* write.
C22_Witness ==
    \E r \in Slots :
        /\ req[r].route \in PutRoutes
        /\ IsDone(req[r])
        /\ req[r].err \notin {"", "P2025"}
        /\ req[r].res.status = 500
        /\ req[r].reads = 1 /\ req[r].writes = 0

----------------------------------------------------------------------------
(* Ids *)

\* C23: no step of a PUT on a user, review, booking or property, whatever its
\* payload, changes the set of ids under which the rows of any table are
\* stored, and the row a PUT answers 200 with carries the id of the path.
C23_IdsFixed ==
    [][\A r \in Slots :
          LET q == req'[r] IN
          (q # req[r] /\ q.route \in PutRoutes) =>
              /\ DOMAIN users' = DOMAIN users
              /\ DOMAIN reviews' = DOMAIN reviews
              /\ DOMAIN bookings' = DOMAIN bookings
              /\ DOMAIN properties' = DOMAIN properties
              /\ hosts' = hosts
              /\ (IsDone(q) /\ q.res.status = 200) => q.res.json.id = q.id]_vars

\* A PUT whose payload carries another id than the path was answered 200, and
\* the row is still stored under the id of the path.
C23_Witness ==
    \E r \in Slots :
        /\ req[r].route = "PUT /reviews/:id"
        /\ req[r].res.status = 200
        /\ Has(req[r].body, "id") /\ req[r].body.id # req[r].id
        /\ req[r].id \in DOMAIN reviews
        /\ req[r].body.id \notin DOMAIN reviews

----------------------------------------------------------------------------
(* Login and the middleware leave the store alone *)

\* C24: no step of POST /login, whatever its input and its answer, changes the
\* store, and neither does the step in which a request of any route is received
\* and passes through the middleware, rejected or authorized.
C24_LoginAndMiddlewareReadOnly ==
    [][\A r \in Slots :
          LET p == req[r]
              q == req'[r]
          IN
          /\ (q # p /\ q.route = "POST /login") => store' = store
          /\ (p.pc = "idle" /\ q.pc # "idle") => store' = store]_vars

\* A login with a wrong password was answered 401 after its lookup, and the
\* user's stored password is not the one that was sent.
C24_Witness ==
    \E r \in Slots :
        /\ req[r].route = "POST /login"
        /\ req[r].res.status = 401
        /\ req[r].reads = 1
        /\ \E i \in UserByUsername(req[r].body.username) :
              users[i].password # req[r].body.password

----------------------------------------------------------------------------
(* Referential integrity *)

----------------------------------------------------------------------------
(* Deleting a row that is referenced *)

\* The bookings and reviews that name the user or the property id.
Dependents(id) ==
    {b \in DOMAIN bookings : id \in {bookings[b].userId, bookings[b].propertyId}}
    \cup {v \in DOMAIN reviews : id \in {reviews[v].userId, reviews[v].propertyId}}

\* C26: the delete step of a DELETE /properties/:id, or of a DELETE /users/:id
\* that passed the ownership check, on a stored row that a booking or a review
\* names is answered 500 and changes nothing in the store.
C26_ReferencedDeleteIs500 ==
    [][\A r \in Slots :
          LET p == req[r]
              q == req'[r]
          IN
          (/\ q # p
           /\ p.pc = "delete"
           /\ \/ p.route = "DELETE /properties/:id" /\ p.id \in DOMAIN properties
              \/ p.route = "DELETE /users/:id" /\ p.id \in DOMAIN users
           /\ Dependents(p.id) # {}) =>
              /\ IsDone(q)
              /\ q.res.status = 500
              /\ store' = store]_vars

\* The delete of a property that a booking or a review names was answered 500;
\* the property and its dependents are stored.
C26_Witness ==
    \E r \in Slots :
        /\ req[r].route = "DELETE /properties/:id"
        /\ req[r].mw = "Authorized"
        /\ req[r].res.status = 500
        /\ req[r].id \in DOMAIN properties
        /\ Dependents(req[r].id) # {}

----------------------------------------------------------------------------
(* Tokens and the store *)

\* C27: a request to a protected route that arrives before the expiry of the
\* token login issued is let through by the middleware with the token's
\* payload as req.user, whatever the store holds at that moment: whether or
\* not the token's user is still stored, and whatever that user's password is.
C27_TokenIndependentOfStore ==
    [][\A r \in Slots :
          LET q == req'[r] IN
          (/\ req[r].pc = "idle" /\ q.pc # "idle"
           /\ IsProtected(q)
           /\ TokenOf(q) \in tokens
           /\ clock < TokenOf(q).payload.exp) =>
              /\ q.mw = "Authorized"
              /\ q.user = TokenOf(q).payload
              /\ q.handler = 1
              /\ q.res.status # 401]_vars

\* The middleware let a request through whose token names a user who is stored
\* no more.
C27_Witness ==
    \E r \in Slots :
        /\ IsProtected(req[r])
        /\ TokenOf(req[r]) \in tokens
        /\ TokenOf(req[r]).payload.userId \notin DOMAIN users
        /\ req[r].mw = "Authorized"
        /\ req[r].handler = 1

----------------------------------------------------------------------------
(* The token subject and the rows of others *)

PutByIdRoutes == {"PUT /reviews/:id", "PUT /bookings/:id", "PUT /properties/:id"}

\* The table a PUT or DELETE by id works on, the tables being v, b and p.
TableOf(route, v, b, p) ==
    IF route \in {"PUT /reviews/:id", "DELETE /reviews/:id"} THEN v
    ELSE IF route \in {"PUT /bookings/:id", "DELETE /bookings/:id"} THEN b
    ELSE p

\* The store call of request q's last step, from its route, id and body alone.
CallOf(q) ==
    IF q.route = "PUT /reviews/:id"
    THEN ReviewUpdate(q.id, TruthyPart(q.body, ReviewFields))
    ELSE IF q.route = "PUT /bookings/:id"
    THEN LET data == BookingData(TruthyPart(q.body, BookingFields)) IN
         IF DatesOk(data) THEN BookingUpdate(q.id, data)
         ELSE Throws("validation", bookings)
    ELSE IF q.route = "PUT /properties/:id"
    THEN PropertyUpdate(q.id, TruthyPart(q.body, PropertyFields))
    ELSE IF q.route = "DELETE /reviews/:id" THEN ReviewDelete(q.id)
    ELSE IF q.route = "DELETE /bookings/:id" THEN BookingDelete(q.id)
    ELSE PropertyDelete(q.id)

\* C28: what a PUT or DELETE on /reviews/:id, /bookings/:id or /properties/:id
\* carrying a valid token does at each of its steps (where it goes, the status
\* it answers, the table it leaves) is determined by its route, id and body and
\* by the store, not by the token's subject: whoever the token names, the row
\* of another user included, it is validated, looked up, and updated or
\* deleted alike.
C28_SubjectIrrelevant ==
    [][\A r \in Slots :
          LET p == req[r]
              q == req'[r]
              before == TableOf(q.route, reviews, bookings, properties)
              after == TableOf(q.route, reviews', bookings', properties')
          IN
          (/\ q # p
           /\ q.route \in PutByIdRoutes \cup DeleteByIdRoutes
           /\ q.mw = "Authorized") =>
              /\ users' = users /\ hosts' = hosts
              /\ q.route \notin {"PUT /reviews/:id", "DELETE /reviews/:id"} =>
                    reviews' = reviews
              /\ q.route \notin {"PUT /bookings/:id", "DELETE /bookings/:id"} =>
                    bookings' = bookings
              /\ q.route \notin {"PUT /properties/:id", "DELETE /properties/:id"} =>
                    properties' = properties
              /\ p.pc = "idle" =>
                    /\ after = before
                    /\ q.handler = 1
                    /\ IF q.route \in DeleteByIdRoutes THEN q.pc = "delete"
                       ELSE IF AllFalsy(q.body, Updatable(q.route))
                       THEN IsDone(q) /\ q.res.status = 400
                       ELSE q.pc = "findUnique"
              /\ p.pc = "findUnique" =>
                    /\ after = before
                    /\ IF q.id \in DOMAIN before THEN q.pc = "update"
                       ELSE IsDone(q) /\ q.res.status = 404
              /\ p.pc \in {"update", "delete"} =>
                    /\ after = CallOf(p).table
                    /\ IsDone(q)
                    /\ q.res.status =
                          IF CallOf(p).code = "ok" THEN 200
                          ELSE IF p.pc = "delete" /\ CallOf(p).code = "P2025" THEN 404
                          ELSE 500]_vars

\* jdoe's token updated or deleted a review or a booking of another user.
C28_Witness ==
    \E r \in Slots :
        /\ req[r].route \in {"PUT /reviews/:id", "DELETE /reviews/:id",
                              "PUT /bookings/:id", "DELETE /bookings/:id"}
        /\ req[r].id \in DOMAIN SeedReviews \cup DOMAIN SeedBookings
        /\ req[r].mw = "Authorized"
        /\ Get(req[r].user, "userId") = "u1"
        /\ TableOf(req[r].route, SeedReviews, SeedBookings, SeedProperties)[req[r].id].userId = "u2"
        /\ req[r].res.status = 200
        /\ req[r].writes = 1

----------------------------------------------------------------------------
(* A store without users *)

\* The run started from the store without users: the seeded user u1 was never
\* stored (ids are never generated twice, and minted never shrinks).
StartedFresh == "u1" \notin minted

\* C29: in a run that starts with no user stored and no token issued, no user
\* is ever stored, no token is ever issued, no POST /users is let through by
\* the middleware and no response carries a token.
C29_NoBootstrap ==
    StartedFresh =>
        /\ DOMAIN users = {}
        /\ tokens = {}
        /\ \A r \in Slots :
              /\ ~Has(req[r].res.json, "token")
              /\ req[r].route = "POST /users" =>
                    /\ req[r].mw # "Authorized"
                    /\ Rejected401(req[r])
              /\ req[r].route = "POST /login" => req[r].res.status \in {0, 400, 401}

\* On the store without users a complete sign-up was rejected by the middleware
\* and a complete login was answered 401 after its lookup.
C29_Witness ==
    /\ StartedFresh
    /\ \E r \in Slots :
          /\ req[r].route = "POST /users"
          /\ ~SomeFalsy(req[r].body, UserRequired)
          /\ Rejected401(req[r])
    /\ \E r \in Slots :
          /\ req[r].route = "POST /login"
          /\ req[r].reads = 1
          /\ req[r].res.status = 401

----------------------------------------------------------------------------
(* The form of the authorization header *)

\* C30: the middleware takes the second space-separated part of the header as
\* the token and does not look at the first: a protected request whose header
\* is any word followed by an unexpired token login issued is let through with
\* the token's payload as req.user, as after the word Bearer; a header that is
\* such a token alone has no second part and is answered 401 "No token
\* provided, authorization denied" before any handler runs.
C30_SchemeWordIgnored ==
    \A r \in Slots :
        LET h == req[r].header IN
        (IsProtected(req[r]) /\ h.present) =>
            /\ (/\ Len(h.parts) = 2
                /\ h.parts[2] \in tokens
                /\ req[r].at < h.parts[2].payload.exp) =>
                  /\ req[r].mw = "Authorized"
                  /\ req[r].user = h.parts[2].payload
                  /\ req[r].handler = 1
            /\ Len(h.parts) = 1 =>
                  /\ req[r].mw = "MissingCredential"
                  /\ Rejected401(req[r])
                  /\ JsonMessage(req[r]) = "No token provided, authorization denied"

\* A protected request whose header is a word other than Bearer followed by a
\* token login issued was let through to its handler.
C30_Witness ==
    \E r \in Slots :
        /\ IsProtected(req[r])
        /\ req[r].header.present
        /\ Len(req[r].header.parts) = 2
        /\ req[r].header.parts[1] = Word("Token")
        /\ req[r].header.parts[2] \in tokens
        /\ req[r].mw = "Authorized"
        /\ req[r].handler = 1

====
